---- MODULE Spec2Model ----
(***************************************************************************)
(* Model of the grid engine of loderunner_min.py: class Game with its      *)
(* intents (reset, handle_player_move, dig) and its fixed tick step().     *)
(*                                                                         *)
(* The engine is modelled operation by operation.  What is scaled down is  *)
(* the data the engine runs on: LEVEL_STR is a 5x4 level written in the    *)
(* legend of the source (border of brick, rope, ladder, gold, exit, player *)
(* start), the enemy is created 2 cells right of and 1 cell above the      *)
(* player start (6 and 6 in the source's 20x17 level), and the three       *)
(* durations (hole regeneration 240, enemy cadence 10, start countdown     *)
(* 300 in the source) are the bounds RegenFrames, MoveInterval and         *)
(* StartTicks, kept in the source's order: cadence < regeneration <        *)
(* countdown.  MaxHoles caps the length of the hole list, which the source *)
(* leaves unbounded.                                                       *)
(***************************************************************************)
EXTENDS Integers, Sequences, FiniteSets, TLC

\* ------------------------------------------------------------------ bounds
MaxHoles == 2
RegenFrames == 4
MoveInterval == 2
StartTicks == 5

\* ------------------------------------------------------------------ config
EMPTY == 0
BRICK == 1
LADDER == 2
ROPE == 3
GOLD == 4
EXIT == 5

HOLE_REGEN_FRAMES == RegenFrames

ENEMY_MOVE_INTERVAL == MoveInterval

LEVEL_STR ==
    << <<"#", "#", "#", "#", "#">>,
       <<"#", "G", "=", ".", "#">>,
       <<"#", "P", "H", "E", "#">>,
       <<"#", "#", "#", "#", "#">> >>

\* ------------------------------------------------------------- parse_level
ParseChar(ch) ==
    CASE ch = "." -> EMPTY
      [] ch = "#" -> BRICK
      [] ch = "H" -> LADDER
      [] ch = "=" -> ROPE
      [] ch = "G" -> GOLD
      [] ch = "P" -> EMPTY
      [] ch = "E" -> EXIT
      [] OTHER -> EMPTY

ParseGrid(lines) ==
    [y \in 0..(Len(lines) - 1) |->
        [x \in 0..(Len(lines[y + 1]) - 1) |-> ParseChar(lines[y + 1][x + 1])]]

\* Coordinates of the cells holding ch, and the one the scan reaches last.
CellsOf(lines, ch) ==
    {c \in (0..(Len(lines[1]) - 1)) \X (0..(Len(lines) - 1)) :
        lines[c[2] + 1][c[1] + 1] = ch}

LastCell(cells, default) ==
    IF cells = {} THEN default
    ELSE CHOOSE c \in cells :
            \A d \in cells : d[2] < c[2] \/ (d[2] = c[2] /\ d[1] <= c[1])

parse_level(lines) ==
    [grid |-> ParseGrid(lines),
     player_start |-> LastCell(CellsOf(lines, "P"), <<1, 1>>),
     exit_pos |-> LastCell(CellsOf(lines, "E"), <<1, 1>>)]

\* ----------------------------------------------------------------- helpers
in_bounds(g, x, y) ==
    /\ 0 <= y /\ y < Cardinality(DOMAIN g)
    /\ 0 <= x /\ x < Cardinality(DOMAIN g[0])

tile_at(g, x, y) ==
    IF ~in_bounds(g, x, y) THEN BRICK ELSE g[y][x]

is_solid(t) == t = BRICK

is_climbable(t) == t = LADDER

is_rope(t) == t = ROPE

is_walkable(t) == t \in {EMPTY, LADDER, ROPE, GOLD, EXIT}

set_tile(g, x, y, t) ==
    IF in_bounds(g, x, y) THEN [g EXCEPT ![y][x] = t] ELSE g

gravity_applies_on_ladder(g, x, y) ==
    LET under == tile_at(g, x, y + 1)
        here == tile_at(g, x, y)
    IN  IF is_rope(here) THEN FALSE
        ELSE ~is_solid(under) /\ ~is_climbable(under)

gravity_applies(g, x, y) ==
    LET under == tile_at(g, x, y + 1)
        here == tile_at(g, x, y)
    IN  IF is_rope(here) THEN FALSE
        ELSE IF is_climbable(here) THEN FALSE
        ELSE ~is_solid(under) /\ ~is_climbable(under)

\* try_move: the entity after the attempt (unchanged when it is rejected).
try_move(g, ent, dx, dy) ==
    IF is_walkable(tile_at(g, ent.x + dx, ent.y + dy))
    THEN [ent EXCEPT !.x = ent.x + dx, !.y = ent.y + dy]
    ELSE ent

\* try_move_enemy: the enemy list after enemy i's attempt.
try_move_enemy_any_tile(g, es, i, dx, dy) ==
    LET nx == es[i].x + dx
        ny == es[i].y + dy
    IN  IF \E j \in 1..Len(es) : j # i /\ es[j].x = nx /\ es[j].y = ny THEN es
        ELSE [es EXCEPT ![i].x = nx, ![i].y = ny]

try_move_enemy(g, es, i, dx, dy) ==
    LET nx == es[i].x + dx
        ny == es[i].y + dy
    IN  IF ~is_walkable(tile_at(g, nx, ny)) THEN es
        ELSE IF \E j \in 1..Len(es) : j # i /\ es[j].x = nx /\ es[j].y = ny THEN es
        ELSE [es EXCEPT ![i].x = nx, ![i].y = ny]

\* collect_gold: the grid and the player after the pickup attempt.
collect_gold_leaves_ladder(g, p) ==
    IF tile_at(g, p.x, p.y) = GOLD
    THEN [grid |-> set_tile(g, p.x, p.y, LADDER),
          player |-> [p EXCEPT !.gold = p.gold + 1]]
    ELSE [grid |-> g, player |-> p]

collect_gold_keeps_tile(g, p) ==
    IF tile_at(g, p.x, p.y) = GOLD
    THEN [grid |-> g,
          player |-> [p EXCEPT !.gold = p.gold + 1]]
    ELSE [grid |-> g, player |-> p]

collect_gold(g, p) ==
    IF tile_at(g, p.x, p.y) = GOLD
    THEN [grid |-> set_tile(g, p.x, p.y, EMPTY),
          player |-> [p EXCEPT !.gold = p.gold + 1]]
    ELSE [grid |-> g, player |-> p]

\* ------------------------------------------------------------------- state
VARIABLES grid, exit_pos, player, enemies, holes, won, dead, countdown,
          enemy_frame_counter

vars == <<grid, exit_pos, player, enemies, holes, won, dead, countdown,
          enemy_frame_counter>>

\* Game.reset: the complete state it installs.
reset ==
    LET lvl == parse_level(LEVEL_STR)
        px == lvl.player_start[1]
        py == lvl.player_start[2]
    IN  [grid |-> lvl.grid,
         exit_pos |-> lvl.exit_pos,
         player |-> [x |-> px, y |-> py, gold |-> 0],
         enemies |-> << [x |-> px + 2, y |-> py - 1,
                         respawn |-> <<px + 2, py - 1>>] >>,
         holes |-> << >>,
         won |-> FALSE,
         dead |-> FALSE,
         countdown |-> StartTicks,
         enemy_frame_counter |-> 0]

\* Game.dig: the grid and the hole list after the call.
dig_ignores_side_cell(g, p, hs, direction) ==
    LET target_x == p.x + direction
        target_y == p.y + 1
    IN  IF tile_at(g, target_x, target_y) # BRICK
        THEN [grid |-> g, holes |-> hs]
        ELSE [grid |-> set_tile(g, target_x, target_y, EMPTY),
              holes |-> Append(hs, [x |-> target_x, y |-> target_y,
                                    timer |-> HOLE_REGEN_FRAMES])]

dig(g, p, hs, direction) ==
    LET target_x == p.x + direction
        target_y == p.y + 1
    IN  IF tile_at(g, target_x, target_y) # BRICK
        THEN [grid |-> g, holes |-> hs]
        ELSE IF ~is_walkable(tile_at(g, p.x + direction, p.y))
        THEN [grid |-> g, holes |-> hs]
        ELSE [grid |-> set_tile(g, target_x, target_y, EMPTY),
              holes |-> Append(hs, [x |-> target_x, y |-> target_y,
                                    timer |-> HOLE_REGEN_FRAMES])]

\* update_holes, inner loop: every enemy standing in hole h goes to its respawn.
crush_nobody(es, h) == es

crush(es, h) ==
    [i \in 1..Len(es) |->
        IF es[i].x = h.x /\ es[i].y = h.y
        THEN [es[i] EXCEPT !.x = es[i].respawn[1], !.y = es[i].respawn[2]]
        ELSE es[i]]

\* Game.update_holes: the loop over the snapshot hs of the hole list, in order.
RECURSIVE update_holes(_, _, _)
update_holes(g, es, hs) ==
    IF hs = << >>
    THEN [grid |-> g, enemies |-> es, holes |-> << >>]
    ELSE LET h == [Head(hs) EXCEPT !.timer = @ - 1]
         IN  IF h.timer <= 0
             THEN update_holes(set_tile(g, h.x, h.y, BRICK), crush(es, h), Tail(hs))
             ELSE LET r == update_holes(g, es, Tail(hs))
                  IN  [r EXCEPT !.holes = <<h>> \o @]

\* Game.enemy_ai_step: the enemy list after enemy i's chase decision.
enemy_ai_step_down_on_same_row(g, p, es, i) ==
    LET px == p.x
        py == p.y
        ex == es[i].x
        ey == es[i].y
        here == tile_at(g, ex, ey)
        up == tile_at(g, ex, ey - 1)
        down == tile_at(g, ex, ey + 1)
        horizontal ==
            IF px < ex THEN try_move_enemy(g, es, i, -1, 0)
            ELSE IF px > ex THEN try_move_enemy(g, es, i, 1, 0)
            ELSE es
    IN  IF /\ (is_climbable(here) \/ is_climbable(down) \/ is_climbable(up))
           /\ py < ey /\ is_walkable(up)
           /\ (is_climbable(here) \/ is_climbable(up))
        THEN try_move_enemy(g, es, i, 0, -1)
        ELSE IF /\ (is_climbable(here) \/ is_climbable(down) \/ is_climbable(up))
                /\ py >= ey /\ is_walkable(down)
                /\ (is_climbable(here) \/ is_climbable(down))
        THEN try_move_enemy(g, es, i, 0, 1)
        ELSE horizontal

enemy_ai_step(g, p, es, i) ==
    LET px == p.x
        py == p.y
        ex == es[i].x
        ey == es[i].y
        here == tile_at(g, ex, ey)
        up == tile_at(g, ex, ey - 1)
        down == tile_at(g, ex, ey + 1)
        horizontal ==
            IF px < ex THEN try_move_enemy(g, es, i, -1, 0)
            ELSE IF px > ex THEN try_move_enemy(g, es, i, 1, 0)
            ELSE es
    IN  IF /\ (is_climbable(here) \/ is_climbable(down) \/ is_climbable(up))
           /\ py < ey /\ is_walkable(up)
           /\ (is_climbable(here) \/ is_climbable(up))
        THEN try_move_enemy(g, es, i, 0, -1)
        ELSE IF /\ (is_climbable(here) \/ is_climbable(down) \/ is_climbable(up))
                /\ py > ey /\ is_walkable(down)
                /\ (is_climbable(here) \/ is_climbable(down))
        THEN try_move_enemy(g, es, i, 0, 1)
        ELSE horizontal

\* handle_player_move, first test: the intent is dropped outside Running.
input_blocked_no_countdown(w, d, cd) == w \/ d

input_blocked(w, d, cd) == w \/ d \/ cd > 0

\* Game.handle_player_move: the grid and the player after the intent.
handle_player_move(g, p, w, d, cd, dx, dy) ==
    LET current_tile == tile_at(g, p.x, p.y)
        target_tile == tile_at(g, p.x, p.y + dy)
        p1 == IF dx # 0 THEN try_move(g, p, dx, 0) ELSE p
        c1 == IF p1 # p THEN collect_gold(g, p1) ELSE [grid |-> g, player |-> p]
        p2 == IF dy # 0 THEN try_move(c1.grid, c1.player, 0, dy) ELSE c1.player
        c2 == IF p2 # c1.player THEN collect_gold(c1.grid, p2) ELSE c1
    IN  IF input_blocked(w, d, cd) THEN [grid |-> g, player |-> p]
        ELSE IF /\ dy # 0
                /\ ~is_walkable(target_tile)
                /\ ~(is_climbable(current_tile) \/ is_rope(current_tile))
        THEN [grid |-> g, player |-> p]
        ELSE c2

any_gold_left(g) ==
    \E y \in DOMAIN g : \E x \in DOMAIN g[y] : g[y][x] = GOLD

\* update_entities, enemy loop: enemies i..Len(es) act in list order.
RECURSIVE enemies_act(_, _, _, _)
enemies_act(g, p, es, i) ==
    IF i > Len(es) THEN es
    ELSE enemies_act(g, p,
                     IF gravity_applies(g, es[i].x, es[i].y)
                     THEN try_move_enemy(g, es, i, 0, 1)
                     ELSE enemy_ai_step(g, p, es, i),
                     i + 1)

\* update_entities, first test: nothing moves once won or dead.
entities_frozen_won_only(w, d) == w

entities_frozen(w, d) == w \/ d

\* update_entities, win condition: no gold left and the player on the exit.
win_condition_ignores_gold(g, ex, p) == <<p.x, p.y>> = ex

win_condition(g, ex, p) == ~any_gold_left(g) /\ <<p.x, p.y>> = ex

\* update_entities, collision check.
collides_transposed(p, es) ==
    \E i \in 1..Len(es) : es[i].x = p.y /\ es[i].y = p.x

collides(p, es) ==
    \E i \in 1..Len(es) : es[i].x = p.x /\ es[i].y = p.y

\* Game.update_entities: everything it can change, after the call.
update_entities_every_tick(g, ex, p, es, w, d, cd, fc) ==
    LET p1 == IF gravity_applies(g, p.x, p.y) THEN try_move(g, p, 0, 1) ELSE p
        c == collect_gold(g, p1)
        w1 == IF win_condition(c.grid, ex, c.player) THEN TRUE ELSE w
        fc1 == fc + 1
        acts == TRUE
        es1 == IF acts THEN enemies_act(c.grid, c.player, es, 1) ELSE es
    IN  IF entities_frozen(w, d) \/ cd > 0
        THEN [grid |-> g, player |-> p, enemies |-> es, won |-> w, dead |-> d,
              enemy_frame_counter |-> fc]
        ELSE [grid |-> c.grid, player |-> c.player, enemies |-> es1,
              won |-> w1,
              dead |-> IF collides(c.player, es1) THEN TRUE ELSE d,
              enemy_frame_counter |-> IF acts THEN 0 ELSE fc1]

update_entities(g, ex, p, es, w, d, cd, fc) ==
    LET p1 == IF gravity_applies(g, p.x, p.y) THEN try_move(g, p, 0, 1) ELSE p
        c == collect_gold(g, p1)
        w1 == IF win_condition(c.grid, ex, c.player) THEN TRUE ELSE w
        fc1 == fc + 1
        acts == fc1 >= ENEMY_MOVE_INTERVAL
        es1 == IF acts THEN enemies_act(c.grid, c.player, es, 1) ELSE es
    IN  IF entities_frozen(w, d) \/ cd > 0
        THEN [grid |-> g, player |-> p, enemies |-> es, won |-> w, dead |-> d,
              enemy_frame_counter |-> fc]
        ELSE [grid |-> c.grid, player |-> c.player, enemies |-> es1,
              won |-> w1,
              dead |-> IF collides(c.player, es1) THEN TRUE ELSE d,
              enemy_frame_counter |-> IF acts THEN 0 ELSE fc1]

\* Game.step: countdown, then update_holes, then update_entities.
step_keeps_countdown(g, ex, p, es, hs, w, d, cd, fc) ==
    LET cd1 == cd
        uh == update_holes(g, es, hs)
        ue == update_entities(uh.grid, ex, p, uh.enemies, w, d, cd1, fc)
    IN  [grid |-> ue.grid, player |-> ue.player, enemies |-> ue.enemies,
         holes |-> uh.holes, won |-> ue.won, dead |-> ue.dead,
         countdown |-> cd1, enemy_frame_counter |-> ue.enemy_frame_counter]

step(g, ex, p, es, hs, w, d, cd, fc) ==
    LET cd1 == IF cd > 0 THEN cd - 1 ELSE cd
        uh == update_holes(g, es, hs)
        ue == update_entities(uh.grid, ex, p, uh.enemies, w, d, cd1, fc)
    IN  [grid |-> ue.grid, player |-> ue.player, enemies |-> ue.enemies,
         holes |-> uh.holes, won |-> ue.won, dead |-> ue.dead,
         countdown |-> cd1, enemy_frame_counter |-> ue.enemy_frame_counter]

\* ----------------------------------------------------------------- actions
Install(s) ==
    /\ grid' = s.grid
    /\ exit_pos' = s.exit_pos
    /\ player' = s.player
    /\ enemies' = s.enemies
    /\ holes' = s.holes
    /\ won' = s.won
    /\ dead' = s.dead
    /\ countdown' = s.countdown
    /\ enemy_frame_counter' = s.enemy_frame_counter

\* Game.__init__ calls reset.
Init ==
    /\ grid = reset.grid
    /\ exit_pos = reset.exit_pos
    /\ player = reset.player
    /\ enemies = reset.enemies
    /\ holes = reset.holes
    /\ won = reset.won
    /\ dead = reset.dead
    /\ countdown = reset.countdown
    /\ enemy_frame_counter = reset.enemy_frame_counter

\* K_r
Reset_keeps_cadence == Install([reset EXCEPT !.enemy_frame_counter = enemy_frame_counter])

Reset == Install(reset)

Directions == {<<-1, 0>>, <<1, 0>>, <<0, -1>>, <<0, 1>>}

\* K_LEFT, K_RIGHT, K_UP, K_DOWN
MovePlayer(dx, dy) ==
    \E r \in {handle_player_move(grid, player, won, dead, countdown, dx, dy)} :
        /\ grid' = r.grid
        /\ player' = r.player
        /\ UNCHANGED <<exit_pos, enemies, holes, won, dead, countdown,
                       enemy_frame_counter>>

Dig(direction) ==
    \E r \in {dig(grid, player, holes, direction)} :
        /\ Len(holes) < MaxHoles
        /\ grid' = r.grid
        /\ holes' = r.holes
        /\ UNCHANGED <<exit_pos, player, enemies, won, dead, countdown,
                       enemy_frame_counter>>

\* K_z
DigLeft == Dig(-1)

\* K_x
DigRight == Dig(1)

Step ==
    \E s \in {step(grid, exit_pos, player, enemies, holes, won, dead,
                   countdown, enemy_frame_counter)} :
        /\ grid' = s.grid
        /\ player' = s.player
        /\ enemies' = s.enemies
        /\ holes' = s.holes
        /\ won' = s.won
        /\ dead' = s.dead
        /\ countdown' = s.countdown
        /\ enemy_frame_counter' = s.enemy_frame_counter
        /\ UNCHANGED exit_pos

Next ==
    \/ Reset
    \/ \E d \in Directions : MovePlayer(d[1], d[2])
    \/ DigLeft
    \/ DigRight
    \/ Step

Spec == Init /\ [][Next]_vars

\* ------------------------------------------------------------------ claims
Running == countdown = 0 /\ ~won /\ ~dead

LevelGrid == parse_level(LEVEL_STR).grid

HoleAt(hs, x, y) == \E k \in 1..Len(hs) : hs[k].x = x /\ hs[k].y = y

\* C1: every recorded hole lies at an in-bounds cell whose tile is Empty now
\* and Brick in the level definition, and no two recorded holes share their
\* coordinates.
C1_HolesWellFormed ==
    /\ \A k \in 1..Len(holes) :
          /\ in_bounds(grid, holes[k].x, holes[k].y)
          /\ tile_at(grid, holes[k].x, holes[k].y) = EMPTY
          /\ tile_at(LevelGrid, holes[k].x, holes[k].y) = BRICK
    /\ \A j, k \in 1..Len(holes) :
          (holes[j].x = holes[k].x /\ holes[j].y = holes[k].y) => j = k

C3_HoleLifecycle ==
    [][ /\ \A d \in {-1, 1} :
              (Dig(d) /\ holes' # holes) =>
                  LET h == holes'[Len(holes')]
                  IN  /\ SubSeq(holes', 1, Len(holes)) = holes
                      /\ h.timer = HOLE_REGEN_FRAMES
                      /\ tile_at(grid', h.x, h.y) = EMPTY
        /\ Step =>
              \A k \in 1..Len(holes) :
                  IF holes[k].timer > 1
                  THEN /\ \E j \in 1..Len(holes') :
                             holes'[j] = [holes[k] EXCEPT !.timer = @ - 1]
                       /\ tile_at(grid', holes[k].x, holes[k].y) = EMPTY
                  ELSE /\ tile_at(grid', holes[k].x, holes[k].y) = BRICK
                       /\ ~HoleAt(holes', holes[k].x, holes[k].y)
        /\ (\E d \in Directions : MovePlayer(d[1], d[2])) =>
              /\ holes' = holes
              /\ \A k \in 1..Len(holes) :
                    tile_at(grid', holes[k].x, holes[k].y) =
                        tile_at(grid, holes[k].x, holes[k].y)
      ]_vars

EnemyAt(es, i, x, y) == es[i].x = x /\ es[i].y = y

\* C4: on the tick a hole's timer reaches zero, every enemy standing in that
\* hole's cell is, once update_holes has run, at its respawn coordinate, the
\* cell is Brick then and at the end of the tick, and by the end of the tick
\* the enemy still exists and has either stayed at its respawn or, on an acting
\* tick, moved from it; the respawn coordinates are the ones reset gave and the
\* number of enemies never changes.
C4_CrushRelocation ==
    [][ /\ Len(enemies') = Len(enemies)
        /\ \A i \in 1..Len(enemies) :
              /\ enemies'[i].respawn = enemies[i].respawn
              /\ enemies[i].respawn = reset.enemies[i].respawn
        /\ \A i \in 1..Len(enemies) : \A k \in 1..Len(holes) :
              (/\ holes[k].timer = 1
               /\ EnemyAt(enemies, i, holes[k].x, holes[k].y)
               /\ Step) =>
                  LET r == update_holes(grid, enemies, holes)
                  IN  /\ <<r.enemies[i].x, r.enemies[i].y>> = enemies[i].respawn
                      /\ tile_at(r.grid, holes[k].x, holes[k].y) = BRICK
                      /\ tile_at(grid', holes[k].x, holes[k].y) = BRICK
                      /\ ~EnemyAt(enemies', i, holes[k].x, holes[k].y)
                      /\ (enemy_frame_counter' # 0 \/ won \/ dead \/ countdown' > 0)
                            => <<enemies'[i].x, enemies'[i].y>> = enemies[i].respawn
      ]_vars

\* A Lost session in which the enemy that caught the player inside a hole has
\* been sent back to its respawn while the player's cell turned to Brick.
C4_Witness ==
    /\ dead
    /\ \E i \in 1..Len(enemies) :
          /\ <<enemies[i].x, enemies[i].y>> = enemies[i].respawn
          /\ ~EnemyAt(enemies, i, player.x, player.y)
    /\ in_bounds(grid, player.x, player.y)
    /\ tile_at(grid, player.x, player.y) = BRICK

\* C5: no enemy is ever at a cell that reads Brick (a Brick tile or a
\* coordinate outside the grid).
C5_EnemyNeverInBrick ==
    \A i \in 1..Len(enemies) :
        /\ in_bounds(grid, enemies[i].x, enemies[i].y)
        /\ tile_at(grid, enemies[i].x, enemies[i].y) # BRICK

\* An enemy stands in a recorded hole that regenerates on the next tick.
C5_Witness ==
    \E i \in 1..Len(enemies) : \E k \in 1..Len(holes) :
        holes[k].timer = 1 /\ EnemyAt(enemies, i, holes[k].x, holes[k].y)

Intent == DigLeft \/ DigRight \/ \E d \in Directions : MovePlayer(d[1], d[2])

\* C6: a step sets won exactly when the session is Running during the step
\* (countdown 0 after the decrement, neither won nor dead before it) and, in
\* the state the step leaves, no Gold tile remains and the player is on the
\* exit; moves and digs never change won.
\* (Each implication A => B is written B \/ ~A: B is the cheaper test.)
C6_WinCondition ==
    [][ /\ \/ (~won /\ won') <=>
                  /\ countdown' = 0 /\ ~won /\ ~dead
                  /\ \A y \in DOMAIN grid' : \A x \in DOMAIN grid'[y] :
                        grid'[y][x] # GOLD
                  /\ <<player'.x, player'.y>> = exit_pos
           \/ ~Step
        /\ \/ won' = won
           \/ ~Intent
      ]_vars

\* Won with the level's gold collected, the player on the exit, still alive.
C6_Witness ==
    /\ won /\ ~dead
    /\ <<player.x, player.y>> = exit_pos
    /\ player.gold = 1

\* C7: while the countdown is positive, a move intent, and a step that leaves
\* the countdown positive, change no player and no enemy coordinate.
C7_StartingGate ==
    [][ countdown > 0 =>
          \/ /\ player'.x = player.x /\ player'.y = player.y
             /\ Len(enemies') = Len(enemies)
             /\ \A i \in 1..Len(enemies) :
                   enemies'[i].x = enemies[i].x /\ enemies'[i].y = enemies[i].y
          \/ ~(\/ \E d \in Directions : MovePlayer(d[1], d[2])
               \/ Step /\ countdown' > 0)
      ]_vars

\* Starting, after at least one tick, with a hole dug during the countdown.
C7_Witness ==
    /\ countdown > 0 /\ countdown < StartTicks
    /\ Len(holes) > 0

\* C8: once won or dead is set, no step, move or dig changes won, dead or
\* the player (coordinates and gold count); reset, the only way out, installs
\* the full countdown with both flags clear.
C8_TerminalUntilReset ==
    [][ (won \/ dead) =>
          /\ \/ (won' = won /\ dead' = dead /\ player' = player)
             \/ ~(Step \/ Intent)
          /\ \/ (countdown' = StartTicks /\ ~won' /\ ~dead')
             \/ ~Reset
      ]_vars

\* A Lost session that is not Won, with a hole still open.
C8_Witness ==
    /\ dead /\ ~won
    /\ Len(holes) > 0

\* C9: a step processed while Running (countdown 0 after the decrement,
\* neither won nor dead before it) that ends with an enemy on the player's
\* cell ends with dead set, whether or not enemies acted on that tick.
C9_Collision ==
    [][ (/\ countdown' = 0 /\ ~won /\ ~dead
         /\ \E i \in 1..Len(enemies') :
               enemies'[i].x = player'.x /\ enemies'[i].y = player'.y
         /\ Step) => dead'
      ]_vars

\* Lost on a tick on which the cadence counter kept the enemies still: the
\* counter froze short of a full interval with the enemy on the player's cell.
C9_Witness ==
    /\ dead
    /\ enemy_frame_counter # 0
    /\ \E i \in 1..Len(enemies) : EnemyAt(enemies, i, player.x, player.y)

FreshGrid ==
    [y \in 0..3 |-> [x \in 0..4 |->
        << <<BRICK, BRICK, BRICK, BRICK, BRICK>>,
           <<BRICK, GOLD, ROPE, EMPTY, BRICK>>,
           <<BRICK, EMPTY, LADDER, EXIT, BRICK>>,
           <<BRICK, BRICK, BRICK, BRICK, BRICK>> >>[y + 1][x + 1]]]

Fresh(g, ex, p, es, hs, w, d, cd, fc) ==
    /\ g = FreshGrid
    /\ ex = <<3, 2>>
    /\ p = [x |-> 1, y |-> 2, gold |-> 0]
    /\ es = << [x |-> 3, y |-> 1, respawn |-> <<3, 1>>] >>
    /\ hs = << >>
    /\ ~w /\ ~d
    /\ cd = StartTicks
    /\ fc = 0

\* C10: the engine starts in the fresh state of the level, and reset, from any
\* state, installs that same state in every component (so a second reset
\* changes nothing).
C10_ResetAtomic ==
    /\ Fresh(grid, exit_pos, player, enemies, holes, won, dead, countdown,
             enemy_frame_counter)
    /\ [][ \/ Fresh(grid', exit_pos', player', enemies', holes', won', dead',
                    countdown', enemy_frame_counter')
           \/ ~Reset
         ]_vars

\* A state that differs from the fresh one in every component reset rebuilds.
C10_Witness ==
    /\ grid # FreshGrid
    /\ player.gold > 0 /\ <<player.x, player.y>> # <<1, 2>>
    /\ \E i \in 1..Len(enemies) :
          <<enemies[i].x, enemies[i].y>> # enemies[i].respawn
    /\ Len(holes) > 0
    /\ dead
    /\ countdown # StartTicks
    /\ enemy_frame_counter # 0

\* C11: a dig whose target (player.x + dir, player.y + 1) does not read Brick
\* or whose side cell (player.x + dir, player.y) is not occupiable, and a move
\* whose destination does not read occupiable (out of bounds reads Brick),
\* change nothing in the state.
C11_RejectedIntentsNoOp ==
    [][ /\ \A d \in {-1, 1} :
              (\/ tile_at(grid, player.x + d, player.y + 1) # BRICK
               \/ ~is_walkable(tile_at(grid, player.x + d, player.y)))
                  => (UNCHANGED vars \/ ~Dig(d))
        /\ \A d \in Directions :
              ~is_walkable(tile_at(grid, player.x + d[1], player.y + d[2]))
                  => (UNCHANGED vars \/ ~MovePlayer(d[1], d[2]))
      ]_vars

\* Running with room in the hole list, and from the player's cell a dig with
\* a target that is not Brick, a dig over Brick with a blocked side cell and a
\* move into a cell that is not occupiable are all on offer.
C11_Witness ==
    /\ countdown = 0 /\ ~won /\ ~dead
    /\ Len(holes) < MaxHoles
    /\ \E d \in {-1, 1} : tile_at(grid, player.x + d, player.y + 1) # BRICK
    /\ \E d \in {-1, 1} :
          /\ tile_at(grid, player.x + d, player.y + 1) = BRICK
          /\ ~is_walkable(tile_at(grid, player.x + d, player.y))
    /\ \E d \in Directions :
          ~is_walkable(tile_at(grid, player.x + d[1], player.y + d[2]))

\* C12: in every session status, a dig whose target (player.x + dir,
\* player.y + 1) reads Brick and whose side cell is occupiable leaves the
\* target cell reading Empty and the hole list longer by exactly one hole, at
\* the target, with timer HOLE_REGEN_FRAMES; the player, the enemies, the
\* status and every other cell and hole are unchanged.
C12_DigAnyStatus ==
    [][ \A d \in {-1, 1} :
          (/\ tile_at(grid, player.x + d, player.y + 1) = BRICK
           /\ is_walkable(tile_at(grid, player.x + d, player.y))
           /\ Dig(d)) =>
              /\ tile_at(grid', player.x + d, player.y + 1) = EMPTY
              /\ holes' = Append(holes, [x |-> player.x + d, y |-> player.y + 1,
                                         timer |-> HOLE_REGEN_FRAMES])
              /\ DOMAIN grid' = DOMAIN grid
              /\ \A y \in DOMAIN grid :
                    /\ DOMAIN grid'[y] = DOMAIN grid[y]
                    /\ \A x \in DOMAIN grid[y] :
                          <<x, y>> # <<player.x + d, player.y + 1>>
                              => grid'[y][x] = grid[y][x]
              /\ UNCHANGED <<player, enemies, won, dead, countdown>>
      ]_vars

\* The state a step() call produces from the current state, and where the
\* update_holes call that opens it leaves the grid and the enemies.
AfterStep ==
    step(grid, exit_pos, player, enemies, holes, won, dead, countdown,
         enemy_frame_counter)

AfterHoles == update_holes(grid, enemies, holes)

C14_CellChanges ==
    [][ \/ grid' = grid
        \/ Reset
        \/ /\ DOMAIN grid' = DOMAIN grid
           /\ \A y \in DOMAIN grid :
                 /\ DOMAIN grid'[y] = DOMAIN grid[y]
                 /\ \A x \in DOMAIN grid[y] :
                       \/ grid'[y][x] = grid[y][x]
                       \/ /\ grid[y][x] = BRICK /\ grid'[y][x] = EMPTY
                          /\ DigLeft \/ DigRight
                          /\ Len(holes') = Len(holes) + 1
                          /\ holes'[Len(holes')].x = x
                          /\ holes'[Len(holes')].y = y
                       \/ /\ grid[y][x] = EMPTY /\ grid'[y][x] = BRICK
                          /\ \E k \in 1..Len(holes) :
                                /\ holes[k].x = x /\ holes[k].y = y
                                /\ holes[k].timer = 1
                          /\ Step
                       \/ /\ grid[y][x] = GOLD /\ grid'[y][x] = EMPTY
                          /\ player'.x = x /\ player'.y = y
                          /\ player'.gold = player.gold + 1
      ]_vars

\* Every kind of change has happened: the Gold cell of the level is Empty, a
\* cell that is Brick in the level is an open hole, and the player has been
\* walled in by a hole that closed again.
C14_Witness ==
    /\ \E y \in DOMAIN grid : \E x \in DOMAIN grid[y] :
          LevelGrid[y][x] = GOLD /\ grid[y][x] = EMPTY
    /\ \E y \in DOMAIN grid : \E x \in DOMAIN grid[y] :
          LevelGrid[y][x] = BRICK /\ grid[y][x] = EMPTY
    /\ in_bounds(grid, player.x, player.y)
    /\ grid[player.y][player.x] = BRICK

\* A step processed while the countdown is positive.
StartingStep == countdown > 0 /\ Step

\* The main loop calls step() once per frame, whatever the keys pressed, so a
\* step that stays possible is taken; the fairness is stated for the steps of
\* Starting, the only ones the countdown needs.
SpecLive == Spec /\ WF_vars(StartingStep)

\* C15: the countdown starts at StartTicks and reset puts it back there; it
\* stays within 0..StartTicks; a step takes exactly one off it while it is
\* positive and leaves it at 0 otherwise, and moves and digs leave it alone; a
\* step that leaves it positive changes neither the player (coordinates and
\* gold) nor any enemy nor the Gold tiles nor won nor dead; and if resets stop
\* at some point, every Starting state is followed by a state with the
\* countdown at 0.
C15_StartingCountdown ==
    /\ countdown = StartTicks
    /\ [][ /\ countdown' \in 0..StartTicks
           /\ \/ countdown' = StartTicks
              \/ ~Reset
           /\ \/ countdown' = countdown
              \/ ~Intent
           /\ \/ /\ countdown' = (IF countdown > 0 THEN countdown - 1 ELSE 0)
                 /\ countdown' > 0 =>
                       /\ player' = player
                       /\ enemies' = enemies
                       /\ won' = won /\ dead' = dead
                       /\ \A y \in DOMAIN grid : \A x \in DOMAIN grid[y] :
                             (grid[y][x] = GOLD) <=> (grid'[y][x] = GOLD)
              \/ ~Step
         ]_vars
    /\ (<>[][~Reset]_vars) => (countdown > 0 ~> countdown = 0)

\* Running right after the step that ended the countdown: one cadence tick
\* counted, the player and the enemies still where reset put them.
C15_Witness ==
    /\ countdown = 0 /\ ~won /\ ~dead
    /\ enemy_frame_counter = 1
    /\ player = reset.player
    /\ enemies = reset.enemies

\* |a - b|
Dist(a, b) == IF a >= b THEN a - b ELSE b - a

\* C16: the cadence counter stays below ENEMY_MOVE_INTERVAL; moves and digs
\* change neither the counter nor any enemy; from every reachable state, a
\* step processed outside Running leaves the counter alone and a step
\* processed while Running adds one to it, going back to 0 when it reaches
\* ENEMY_MOVE_INTERVAL; measured from where update_holes of the tick leaves
\* the enemies (crush relocation), a step on which the counter goes back to 0
\* moves each enemy by at most one cell, and any other step moves no enemy.
C16_EnemyCadence ==
    /\ [](LET s == AfterStep
              r == AfterHoles
              running == s.countdown = 0 /\ ~won /\ ~dead
              acting == running /\ enemy_frame_counter + 1 >= ENEMY_MOVE_INTERVAL
          IN  /\ enemy_frame_counter \in 0..(ENEMY_MOVE_INTERVAL - 1)
              /\ s.enemy_frame_counter =
                     (IF ~running THEN enemy_frame_counter
                      ELSE IF acting THEN 0
                      ELSE enemy_frame_counter + 1)
              /\ Len(s.enemies) = Len(enemies)
              /\ \A i \in 1..Len(enemies) :
                    /\ s.enemies[i].respawn = enemies[i].respawn
                    /\ IF acting
                       THEN Dist(s.enemies[i].x, r.enemies[i].x)
                              + Dist(s.enemies[i].y, r.enemies[i].y) <= 1
                       ELSE /\ s.enemies[i].x = r.enemies[i].x
                            /\ s.enemies[i].y = r.enemies[i].y)
    /\ [][ \/ (enemy_frame_counter' = enemy_frame_counter /\ enemies' = enemies)
           \/ ~Intent
         ]_vars

\* Running, one tick short of the next enemy action, with an enemy that its
\* earlier actions have taken two cells or more away from its respawn.
C16_Witness ==
    /\ countdown = 0 /\ ~won /\ ~dead
    /\ enemy_frame_counter = ENEMY_MOVE_INTERVAL - 1
    /\ \E i \in 1..Len(enemies) :
          Dist(enemies[i].x, enemies[i].respawn[1])
            + Dist(enemies[i].y, enemies[i].respawn[2]) >= 2

\* C17: from every reachable state, for the step processed while Running on
\* which enemies act: an enemy that, where update_holes leaves it, is not
\* subject to gravity (its tile is Rope or Ladder, or the tile below is solid
\* or climbable), is in the row the player is in after the player's gravity
\* of the tick and in another column, ends the tick one cell closer to the
\* player's column in the same row when the adjacent cell toward the player
\* reads occupiable and holds no other enemy, and ends it where it was when
\* that cell does not read occupiable.
C17_SameRowChase ==
    LET s == AfterStep
        r == AfterHoles
    IN  (/\ s.countdown = 0 /\ ~won /\ ~dead
         /\ enemy_frame_counter + 1 >= ENEMY_MOVE_INTERVAL) =>
            \A i \in 1..Len(enemies) :
                LET e == r.enemies[i]
                    toward == IF s.player.x < e.x THEN e.x - 1 ELSE e.x + 1
                IN  (/\ \/ tile_at(r.grid, e.x, e.y) \in {ROPE, LADDER}
                        \/ tile_at(r.grid, e.x, e.y + 1) \in {BRICK, LADDER}
                     /\ s.player.y = e.y
                     /\ s.player.x # e.x) =>
                        IF is_walkable(tile_at(r.grid, toward, e.y))
                        THEN (\A j \in 1..Len(enemies) :
                                 j # i =>
                                   /\ ~EnemyAt(r.enemies, j, toward, e.y)
                                   /\ ~EnemyAt(s.enemies, j, toward, e.y))
                                => EnemyAt(s.enemies, i, toward, e.y)
                        ELSE EnemyAt(s.enemies, i, e.x, e.y)

\* Running, one tick before the enemies act, no hole about to close: the
\* player and an enemy rest on Brick in the same row, two columns apart, with
\* an occupiable cell between them.
C17_Witness ==
    /\ countdown = 0 /\ ~won /\ ~dead
    /\ enemy_frame_counter + 1 >= ENEMY_MOVE_INTERVAL
    /\ \A k \in 1..Len(holes) : holes[k].timer > 1
    /\ tile_at(grid, player.x, player.y + 1) = BRICK
    /\ \E i \in 1..Len(enemies) :
          /\ tile_at(grid, enemies[i].x, enemies[i].y + 1) = BRICK
          /\ enemies[i].y = player.y
          /\ enemies[i].x = player.x + 2
          /\ is_walkable(tile_at(grid, player.x + 1, player.y))

\* C18: from every reachable Running state (countdown 0, neither won nor
\* dead) in which an enemy is on the player's cell, however the two came to
\* share it, the next step ends with dead set.
C18_SharedCellLost ==
    (/\ countdown = 0 /\ ~won /\ ~dead
     /\ \E i \in 1..Len(enemies) : EnemyAt(enemies, i, player.x, player.y))
        => AfterStep.dead

\* Number of Gold tiles in grid g.
GoldTiles(g) ==
    Cardinality({c \in (DOMAIN g[0]) \X (DOMAIN g) : g[c[2]][c[1]] = GOLD})

\* C19: in every reachable state the player's gold count plus the number of
\* Gold tiles in the grid is the number of Gold tiles in the level; across
\* every transition but reset the count never decreases, and it goes up, by
\* exactly one, exactly when the tile at the cell the player ends on turns
\* from Gold to Empty.
C19_GoldConservation ==
    /\ [](player.gold + GoldTiles(grid) = GoldTiles(LevelGrid))
    /\ [][ \/ player'.gold = player.gold /\ GoldTiles(grid') = GoldTiles(grid)
           \/ Reset
           \/ /\ player'.gold = player.gold + 1
              /\ tile_at(grid, player'.x, player'.y) = GOLD
              /\ tile_at(grid', player'.x, player'.y) = EMPTY
         ]_vars

\* The player has picked the gold up and walked on: it holds one gold, stands
\* elsewhere, and the cell that held the Gold tile is Empty.
C19_Witness ==
    /\ player.gold = 1
    /\ \E y \in DOMAIN grid : \E x \in DOMAIN grid[y] :
          /\ LevelGrid[y][x] = GOLD /\ grid[y][x] = EMPTY
          /\ <<player.x, player.y>> # <<x, y>>
    /\ ~won /\ ~dead

\* C20: in every reachable state the player is at an in-bounds cell whose
\* tile is occupiable (Empty, Ladder, Rope, Gold or Exit).
C20_PlayerOccupiable ==
    /\ in_bounds(grid, player.x, player.y)
    /\ is_walkable(tile_at(grid, player.x, player.y))

====
